---- MODULE Spec2Model ----
(***************************************************************************)
(* Content-addressed chunk identifiers (CodeChunk.doc_id) and the Merkle   *)
(* tree builder / differ (MerkleTree.build_from_chunks, MerkleTree.compare)*)
(* of pr_agent/algo/ast.                                                   *)
(*                                                                         *)
(* Strings are sequences of tokens.  A token is a record [k, v]: a plain   *)
(* character has k = the character and v = <<>>; the hex digest of a       *)
(* string s is the single token [k |-> "#", v |-> s], which stands for the *)
(* 64 hex characters of SHA-256(s) and makes the digest collision-free.    *)
(***************************************************************************)
EXTENDS Integers, Sequences, FiniteSets, Bags, TLC

\* ---------------------------------------------------------------- bounds
MaxLen == 2        \* longest chunk list handed to build_from_chunks
MaxBuilds == 2     \* build_from_chunks calls in one run
MaxText == 3       \* longest chunk text of the identifier machine
MaxLine == 2       \* largest line number of the identifier machine
MaxTop == 2        \* most children of a module node handed to chunk_code
MaxBody == 2       \* most children of a class body block
MaxFiles == 2      \* most entries of a scanned directory
MaxCalls == 2      \* caller-facing chunker calls in one run

\* --------------------------------------------------------------- strings
Ch(c) == [k |-> c, v |-> <<>>]

Str1(a) == <<Ch(a)>>

Str2(a, b) == <<Ch(a), Ch(b)>>

NL == Ch("\n")

\* characters str.strip() removes
Whitespace == {Ch(" "), Ch("\t"), NL}

RECURSIVE Concat(_)
\* "".join(strs)
Concat(strs) ==
  IF strs = <<>> THEN <<>> ELSE Head(strs) \o Concat(Tail(strs))

\* hashlib.sha256(content.encode()).hexdigest()
hash_content(content) == <<[k |-> "#", v |-> content]>>

RECURSIVE split(_)
\* code.split('\n'): always at least one line
split(code) ==
  IF \A i \in 1..Len(code) : code[i] # NL THEN <<code>>
  ELSE LET i == CHOOSE j \in 1..Len(code) :
                  code[j] = NL /\ \A m \in 1..(j-1) : code[m] # NL
       IN <<SubSeq(code, 1, i-1)>> \o split(SubSeq(code, i+1, Len(code)))

RECURSIVE join(_)
\* '\n'.join(lines)
join(lines) ==
  IF lines = <<>> THEN <<>>
  ELSE IF Len(lines) = 1 THEN lines[1]
  ELSE lines[1] \o <<NL>> \o join(Tail(lines))

RECURSIVE lstrip(_)
lstrip(line) ==
  IF line # <<>> /\ Head(line) \in Whitespace THEN lstrip(Tail(line)) ELSE line

RECURSIVE rstrip(_)
rstrip(line) ==
  IF line # <<>> /\ line[Len(line)] \in Whitespace
  THEN rstrip(SubSeq(line, 1, Len(line)-1)) ELSE line

\* line.rstrip() where strip() was meant: indentation survives
strip_right(line) == rstrip(line)

\* line.strip()
strip(line) == rstrip(lstrip(line))

\* the lines that survive 'if line'
NonEmpty(lines) == SelectSeq(lines, LAMBDA l : l # <<>>)

\* CodeChunk.normalize_code
normalize_code(code) ==
  LET lines == [i \in 1..Len(split(code)) |-> strip(split(code)[i])]
  IN join(NonEmpty(lines))

\* doc_id without the path prefix
doc_id_nopath(chunk) ==
  Str2("_", "_") \o hash_content(normalize_code(chunk.code_string))

\* doc_id hashing the chunk type together with the text
doc_id_typed(chunk) ==
  chunk.path \o Str2("_", "_")
    \o hash_content(<<Ch(chunk.type)>> \o normalize_code(chunk.code_string))

\* CodeChunk.doc_id
doc_id(chunk) ==
  chunk.path \o Str2("_", "_") \o hash_content(normalize_code(chunk.code_string))

\* CodeChunk(code_string, type, start_line, end_line, path)
CodeChunk(code, type, start, end, path) ==
  [code_string |-> code, type |-> type, start_line |-> start,
   end_line |-> end, path |-> path]

\* ------------------------------------------------------------ Merkle tree
\* MerkleNode(hash_value, children)
MerkleNode(hash_value, children) ==
  [hash_value |-> hash_value, children |-> children]

\* MerkleTree(): root None is the empty sequence, a root node is <<node>>
NewTree == [root |-> <<>>, chunk_nodes |-> <<>>]

\* hash_children without the 'if not children' case
hash_children_noguard(children) ==
  hash_content(Concat([i \in 1..Len(children) |-> children[i].hash_value]))

\* MerkleTree.hash_children
hash_children(children) ==
  IF children = <<>> THEN <<>>
  ELSE hash_content(Concat([i \in 1..Len(children) |-> children[i].hash_value]))

RECURSIVE PathOrder(_)
\* keys of path_to_chunks in insertion order (first appearance in chunks)
PathOrder(chunks) ==
  IF chunks = <<>> THEN <<>>
  ELSE LET rest == PathOrder(SubSeq(chunks, 1, Len(chunks)-1))
           p == chunks[Len(chunks)].path
       IN IF \E i \in 1..Len(rest) : rest[i] = p THEN rest ELSE Append(rest, p)

\* path_to_chunks[path]: the chunks of one path, in list order
FileChunks(chunks, path) == SelectSeq(chunks, LAMBDA c : c.path = path)

\* the leaf nodes and the file node of one path
FileNode(chunks, path) ==
  LET fc == FileChunks(chunks, path)
      leaves == [i \in 1..Len(fc) |-> MerkleNode(doc_id(fc[i]), <<>>)]
  IN MerkleNode(hash_children(leaves), leaves)

\* self.chunk_nodes[chunk.doc_id] = leaf, for every chunk, on top of old
IndexAfter(old, chunks) ==
  LET ids == {doc_id(chunks[i]) : i \in 1..Len(chunks)}
  IN [id \in (DOMAIN old) \cup ids |->
        IF id \in ids THEN MerkleNode(id, <<>>) ELSE old[id]]

\* build_from_chunks that never assigns self.root
build_from_chunks_noroot(self, chunks) ==
  [root |-> self.root, chunk_nodes |-> IndexAfter(self.chunk_nodes, chunks)]

\* MerkleTree.build_from_chunks
build_from_chunks(self, chunks) ==
  LET paths == PathOrder(chunks)
      file_nodes == [i \in 1..Len(paths) |-> FileNode(chunks, paths[i])]
  IN [root |-> <<MerkleNode(hash_children(file_nodes), file_nodes)>>,
      chunk_nodes |-> IndexAfter(self.chunk_nodes, chunks)]

\* self_file_nodes / other_file_nodes: {child.hash_value: child}, last wins
file_nodes_by_hash(root) ==
  LET ch == root.children
  IN [h \in {ch[i].hash_value : i \in 1..Len(ch)} |->
        ch[CHOOSE i \in 1..Len(ch) :
             ch[i].hash_value = h /\ \A j \in (i+1)..Len(ch) : ch[j].hash_value # h]]

\* the hash values of a node's children, as the bag a loop of appends adds
ChildHashes(node) ==
  LET ch == node.children
  IN [h \in {ch[i].hash_value : i \in 1..Len(ch)} |->
        Cardinality({i \in 1..Len(ch) : ch[i].hash_value = h})]

\* the keys of {chunk.hash_value: chunk for chunk in file.children}
ChunkKeys(node) == {node.children[i].hash_value : i \in 1..Len(node.children)}

RECURSIVE SumBags(_, _)
\* everything the loop over a set of file hashes appends to changed_chunks
SumBags(hashes, added) ==
  IF hashes = {} THEN EmptyBag
  ELSE LET h == CHOOSE x \in hashes : TRUE
       IN added[h] (+) SumBags(hashes \ {h}, added)

\* compare reporting only the leaves present on one side
compare_leafdiff(self, other) ==
  IF self.root = <<>> \/ other.root = <<>>
  THEN SetToBag((DOMAIN self.chunk_nodes) \cup (DOMAIN other.chunk_nodes))
  ELSE IF self.root[1].hash_value = other.root[1].hash_value
  THEN EmptyBag
  ELSE
    LET sf == self.root[1].children
        of == other.root[1].children
        sl == UNION {ChunkKeys(sf[i]) : i \in 1..Len(sf)}
        ol == UNION {ChunkKeys(of[i]) : i \in 1..Len(of)}
    IN SetToBag((sl \ ol) \cup (ol \ sl))

\* compare with '|' for '^': every file counts as changed
compare_allfiles(self, other) ==
  IF self.root = <<>> \/ other.root = <<>>
  THEN SetToBag((DOMAIN self.chunk_nodes) \cup (DOMAIN other.chunk_nodes))
  ELSE IF self.root[1].hash_value = other.root[1].hash_value
  THEN EmptyBag
  ELSE
    LET self_file_nodes == file_nodes_by_hash(self.root[1])
        other_file_nodes == file_nodes_by_hash(other.root[1])
        S == DOMAIN self_file_nodes
        O == DOMAIN other_file_nodes
        fromChanged == [h \in S \cup O |->
           IF h \in S THEN ChildHashes(self_file_nodes[h])
           ELSE ChildHashes(other_file_nodes[h])]
    IN SumBags(S \cup O, fromChanged)

\* compare with the root test inverted
compare_rootneq(self, other) ==
  IF self.root = <<>> \/ other.root = <<>>
  THEN SetToBag((DOMAIN self.chunk_nodes) \cup (DOMAIN other.chunk_nodes))
  ELSE IF self.root[1].hash_value # other.root[1].hash_value
  THEN EmptyBag
  ELSE
    LET self_file_nodes == file_nodes_by_hash(self.root[1])
        other_file_nodes == file_nodes_by_hash(other.root[1])
        S == DOMAIN self_file_nodes
        O == DOMAIN other_file_nodes
        changed_file_hashes == (S \ O) \cup (O \ S)
        fromChanged == [h \in changed_file_hashes |->
           IF h \in S THEN ChildHashes(self_file_nodes[h])
           ELSE ChildHashes(other_file_nodes[h])]
    IN SumBags(changed_file_hashes, fromChanged)

\* compare whose loop over the changed files forgets the 'elif' side
compare_selfonly(self, other) ==
  IF self.root = <<>> \/ other.root = <<>>
  THEN SetToBag((DOMAIN self.chunk_nodes) \cup (DOMAIN other.chunk_nodes))
  ELSE IF self.root[1].hash_value = other.root[1].hash_value
  THEN EmptyBag
  ELSE
    LET self_file_nodes == file_nodes_by_hash(self.root[1])
        S == DOMAIN self_file_nodes
        O == DOMAIN file_nodes_by_hash(other.root[1])
        fromChanged == [h \in S \ O |-> ChildHashes(self_file_nodes[h])]
    IN SumBags(S \ O, fromChanged)

\* compare whose root-less branch returns only the receiver's keys
compare_selfkeys(self, other) ==
  IF self.root = <<>> \/ other.root = <<>>
  THEN SetToBag(DOMAIN self.chunk_nodes)
  ELSE IF self.root[1].hash_value = other.root[1].hash_value
  THEN EmptyBag
  ELSE
    LET self_file_nodes == file_nodes_by_hash(self.root[1])
        other_file_nodes == file_nodes_by_hash(other.root[1])
        S == DOMAIN self_file_nodes
        O == DOMAIN other_file_nodes
        changed_file_hashes == (S \ O) \cup (O \ S)
        fromChanged == [h \in changed_file_hashes |->
           IF h \in S THEN ChildHashes(self_file_nodes[h])
           ELSE ChildHashes(other_file_nodes[h])]
    IN SumBags(changed_file_hashes, fromChanged)

\* MerkleTree.compare: the returned list as a bag (its order is the
\* iteration order of Python sets and carries no meaning)
compare(self, other) ==
  IF self.root = <<>> \/ other.root = <<>>
  THEN SetToBag((DOMAIN self.chunk_nodes) \cup (DOMAIN other.chunk_nodes))
  ELSE IF self.root[1].hash_value = other.root[1].hash_value
  THEN EmptyBag
  ELSE
    LET self_file_nodes == file_nodes_by_hash(self.root[1])
        other_file_nodes == file_nodes_by_hash(other.root[1])
        S == DOMAIN self_file_nodes
        O == DOMAIN other_file_nodes
        changed_file_hashes == (S \ O) \cup (O \ S)
        common_file_hashes == S \cap O
        fromChanged == [h \in changed_file_hashes |->
           IF h \in S THEN ChildHashes(self_file_nodes[h])
           ELSE ChildHashes(other_file_nodes[h])]
        fromCommon == [h \in common_file_hashes |->
           IF self_file_nodes[h].hash_value # other_file_nodes[h].hash_value
           THEN LET sc == ChunkKeys(self_file_nodes[h])
                    oc == ChunkKeys(other_file_nodes[h])
                IN SetToBag((sc \ oc) \cup (oc \ sc))
           ELSE EmptyBag]
    IN SumBags(changed_file_hashes, fromChanged)
         (+) SumBags(common_file_hashes, fromCommon)

\* ------------------------------------------------------------- AST chunker
\* A tree-sitter node as chunk_code reads it: type, children, start_byte,
\* end_byte and the rows of start_point and end_point.
RECURSIVE FirstBlock(_)
\* the loop of _process_class that stops at the first 'block' child
FirstBlock(children) ==
  IF children = <<>> THEN <<>>
  ELSE IF Head(children).type = "block" THEN <<Head(children)>>
  ELSE FirstBlock(Tail(children))

\* ASTChunker._extract_chunk
extract_chunk(node, code, chunk_type, file_path) ==
  CodeChunk(SubSeq(code, node.start_byte + 1, node.end_byte), chunk_type,
            node.start_point[1] + 1, node.end_point[1] + 1, file_path)

\* the chunks of the function_definition children of a body, as 'method'
MethodChunks(body, code, file_path) ==
  LET fs == SelectSeq(body, LAMBDA c : c.type = "function_definition")
  IN [i \in 1..Len(fs) |-> extract_chunk(fs[i], code, "method", file_path)]

RECURSIVE process_class_deep(_, _, _)
\* _process_class that also walks the classes nested in the body
process_class_deep(node, code, file_path) ==
  LET body_node == FirstBlock(node.children)
      body == IF body_node = <<>> THEN <<>> ELSE body_node[1].children
  IN <<extract_chunk(node, code, "class", file_path)>>
       \o Concat([i \in 1..Len(body) |->
             IF body[i].type = "function_definition"
             THEN <<extract_chunk(body[i], code, "method", file_path)>>
             ELSE IF body[i].type = "class_definition"
             THEN process_class_deep(body[i], code, file_path)
             ELSE <<>>])

\* ASTChunker._process_class
process_class(node, code, file_path) ==
  LET body_node == FirstBlock(node.children)
  IN <<extract_chunk(node, code, "class", file_path)>>
       \o (IF body_node = <<>> THEN <<>>
           ELSE MethodChunks(body_node[1].children, code, file_path))

\* ASTChunker.chunk_code, from the root node the parser returned for code
chunk_code(root_node, code, file_path) ==
  Concat([i \in 1..Len(root_node.children) |->
    LET child == root_node.children[i]
    IN IF child.type = "class_definition"
       THEN process_class(child, code, file_path)
       ELSE IF child.type = "function_definition"
       THEN <<extract_chunk(child, code, "function", file_path)>>
       ELSE <<>>])

\* --------------------------------------------------- inputs of the chunker
\* Parse trees are drawn as shapes [type, children] and laid out over a
\* text that holds one token per childless node, each on a line of its own.
Shape(type, children) == [type |-> type, children |-> children]

Stmt == Shape("expression_statement", <<>>)

Ident == Shape("identifier", <<>>)

FuncShape(body) == Shape("function_definition", <<Ident, Shape("block", body)>>)

ClassShape(body) == Shape("class_definition", <<Ident, Shape("block", body)>>)

SimpleFunc == FuncShape(<<Stmt>>)

\* a function defined inside a function
NestedFunc == FuncShape(<<SimpleFunc>>)

\* a class, with a method, defined inside a class body
InnerClass == ClassShape(<<SimpleFunc>>)

\* a decorated function: the function_definition is the child of a wrapper
Decorated == Shape("decorated_definition", <<Shape("decorator", <<>>), SimpleFunc>>)

BodyItems == {Stmt, SimpleFunc, InnerClass}

ClassShapes ==
  {ClassShape(b) : b \in UNION {[1..n -> BodyItems] : n \in 0..MaxBody}}
    \cup {Shape("class_definition", <<Ident>>)}

TopItems == {Stmt, SimpleFunc, NestedFunc, Decorated} \cup ClassShapes

ModuleShapes ==
  {Shape("module", c) : c \in UNION {[1..n -> TopItems] : n \in 0..MaxTop}}

RECURSIVE LeafCount(_)
\* the childless nodes of a shape: the lines of its text
LeafCount(shape) ==
  IF shape.children = <<>> THEN 1
  ELSE LET RECURSIVE Sum(_)
           Sum(cs) == IF cs = <<>> THEN 0 ELSE LeafCount(Head(cs)) + Sum(Tail(cs))
       IN Sum(shape.children)

RECURSIVE Layout(_, _)
\* the node of a shape whose first line is row k of the text
Layout(shape, k) ==
  IF shape.children = <<>>
  THEN [type |-> shape.type, children |-> <<>>,
        start_byte |-> 2 * k, end_byte |-> 2 * k + 1,
        start_point |-> <<k, 0>>, end_point |-> <<k, 1>>]
  ELSE LET RECURSIVE Kids(_, _)
           Kids(cs, at) ==
             IF cs = <<>> THEN <<>>
             ELSE <<Layout(Head(cs), at)>> \o Kids(Tail(cs), at + LeafCount(Head(cs)))
           kids == Kids(shape.children, k)
       IN [type |-> shape.type, children |-> kids,
           start_byte |-> kids[1].start_byte,
           end_byte |-> kids[Len(kids)].end_byte,
           start_point |-> kids[1].start_point,
           end_point |-> kids[Len(kids)].end_point]

RECURSIVE Source(_)
\* the text of a shape: one token and a newline per childless node
Source(shape) ==
  IF shape.children = <<>> THEN <<Ch(shape.type), NL>>
  ELSE Concat([i \in 1..Len(shape.children) |-> Source(shape.children[i])])

\* tree.root_node for a module shape; an empty file has an empty module
RootNode(module) ==
  IF module.children = <<>>
  THEN [type |-> "module", children |-> <<>>, start_byte |-> 0, end_byte |-> 0,
        start_point |-> <<0, 0>>, end_point |-> <<0, 0>>]
  ELSE Layout(module, 0)

\* the text whose parse tree is the module shape
ModuleSource(module) == IF module.children = <<>> THEN <<>> ELSE Source(module)

\* --------------------------------------------------- inputs of the tree machine
Paths == {Str1("p"), Str1("q")}

Texts == {Str1("a"), Str2(" ", "b")}

\* the chunks build_from_chunks is handed: both texts under p, one under q
TreeChunks ==
  {CodeChunk(t, "function", 1, 1, p) : t \in Texts, p \in Paths}
    \ {CodeChunk(Str2(" ", "b"), "function", 1, 1, Str1("q"))}

ChunkLists == UNION {[1..n -> TreeChunks] : n \in 0..MaxLen}

TreeIds == {1, 2}

\* ------------------------------------------------- inputs of the identifier machine
Alphabet == {Ch("a"), Ch(" "), NL}

\* the whitespace of the texts that does not end a line
Blank == (Whitespace \cap Alphabet) \ {NL}

Types == {"function", "class", "method"}

VARIABLES
  trees,      \* the two MerkleTree objects: [root, chunk_nodes]
  nbuilt,     \* per tree, the build_from_chunks calls since MerkleTree()
  src,        \* per tree, the chunk list of its latest build_from_chunks
  last,       \* the latest call: op, receiver, argument, repeated?
  result,     \* what the latest call returned, if it was compare (a bag)
  chunk,      \* identifier machine: the current CodeChunk
  prev,       \* identifier machine: the CodeChunk before the latest edit
  edit,       \* identifier machine: the kind of the latest edit
  ids,        \* identifier machine: <<doc_id of prev, doc_id of chunk>>
  parsed,     \* chunker: the root node, text and path of the latest
              \* chunk_code call and the chunk list it returned
  env,        \* provisioning: is python.so there, can it be built
  nprov,      \* provisioning: build_language executions of the process
  ncalls,     \* provisioning: caller-facing calls made so far
  ret,        \* provisioning: the latest call, its argument and outcome
  dtree       \* provisioning: the tree of the latest build_from_directory

vars == <<trees, nbuilt, src, last, result, chunk, prev, edit, ids,
          parsed, env, nprov, ncalls, ret, dtree>>

scanVars == <<parsed, env, nprov, ncalls, ret, dtree>>

treeVars == <<trees, nbuilt, src, last, result>>

idVars == <<chunk, prev, edit, ids>>

Chunk0 == CodeChunk(Str1("a"), "function", 1, 1, Str1("p"))

InitTrees ==
  /\ trees = [t \in TreeIds |-> NewTree]
  /\ nbuilt = [t \in TreeIds |-> 0]
  /\ src = [t \in TreeIds |-> <<>>]
  /\ last = [op |-> "new", self |-> 1, other |-> 1, rep |-> FALSE]
  /\ result = EmptyBag

\* nothing parsed, nothing called, python.so present
InitScan ==
  /\ parsed = [root_node |-> RootNode(Shape("module", <<>>)), code |-> <<>>,
               file_path |-> Str1("p"), chunks |-> <<>>, done |-> FALSE]
  /\ env = [so_exists |-> TRUE, repo_ok |-> TRUE]
  /\ nprov = 0
  /\ ncalls = 0
  /\ ret = [op |-> "none", arg |-> <<>>, outcome |-> "returned", chunks |-> <<>>]
  /\ dtree = NewTree

InitChunk0 ==
  /\ chunk = Chunk0 /\ prev = Chunk0 /\ edit = "none"
  /\ ids = <<doc_id(Chunk0), doc_id(Chunk0)>>

Init ==
  /\ InitTrees
  /\ chunk = Chunk0 /\ prev = Chunk0 /\ edit = "none"
  /\ ids = <<doc_id(Chunk0), doc_id(Chunk0)>>
  /\ InitScan

\* t.build_from_chunks(cs)
Build(t, cs) ==
  /\ nbuilt[1] + nbuilt[2] < MaxBuilds
  /\ trees' = [trees EXCEPT ![t] = build_from_chunks(trees[t], cs)]
  /\ nbuilt' = [nbuilt EXCEPT ![t] = @ + 1]
  /\ src' = [src EXCEPT ![t] = cs]
  /\ last' = [op |-> "build", self |-> t, other |-> t, rep |-> FALSE]
  /\ result' = EmptyBag
  /\ UNCHANGED idVars
  /\ UNCHANGED scanVars

\* a.compare(b) that merges b's chunk_nodes into a's while comparing
Compare_merging(a, b) ==
  /\ result' = compare(trees[a], trees[b])
  /\ last' = [op |-> "compare", self |-> a, other |-> b,
              rep |-> (last.op = "compare" /\ last.self = a /\ last.other = b)]
  /\ trees' = [trees EXCEPT ![a].chunk_nodes =
                 [id \in (DOMAIN @) \cup (DOMAIN trees[b].chunk_nodes) |->
                    MerkleNode(id, <<>>)]]
  /\ UNCHANGED <<nbuilt, src>>
  /\ UNCHANGED idVars
  /\ UNCHANGED scanVars

\* a.compare(b)
Compare(a, b) ==
  /\ result' = compare(trees[a], trees[b])
  /\ last' = [op |-> "compare", self |-> a, other |-> b,
              rep |-> (last.op = "compare" /\ last.self = a /\ last.other = b)]
  /\ UNCHANGED <<trees, nbuilt, src>>
  /\ UNCHANGED idVars
  /\ UNCHANGED scanVars

Next ==
  \/ \E t \in TreeIds, cs \in ChunkLists : Build(t, cs)
  \/ \E a \in TreeIds, b \in TreeIds : Compare(a, b)

Spec == Init /\ [][Next]_vars

\* ------------------------------------------------------- claims: vocabulary
\* the latest call was a.compare(b); A and B are its receiver and argument
Compared == last.op = "compare"

A == trees[last.self]

B == trees[last.other]

\* the tree is MerkleTree().build_from_chunks(src[t])
BuiltOnce(t) == nbuilt[t] = 1

BothBuiltOnce == BuiltOnce(last.self) /\ BuiltOnce(last.other)

ResultSet == BagToSet(result)

\* the identifiers of the chunks of a list, and of its chunks under a path
IdsOf(chunks) == {doc_id(chunks[i]) : i \in 1..Len(chunks)}

IdSeqUnder(chunks, path) ==
  [i \in 1..Len(FileChunks(chunks, path)) |-> doc_id(FileChunks(chunks, path)[i])]

IdsUnder(chunks, path) == IdsOf(FileChunks(chunks, path))

HasPath(chunks, path) == \E i \in 1..Len(chunks) : chunks[i].path = path

\* the file nodes of a built tree, and the digests of all of them
FilesOf(tree) == {tree.root[1].children[i] : i \in 1..Len(tree.root[1].children)}

FileDigests(tree) == {f.hash_value : f \in FilesOf(tree)}

\* C1: comparing two trees built once from the same chunk list (the empty
\* list and lists over several paths included) returns an empty result.
C1_TreeEquality ==
  (Compared /\ BothBuiltOnce /\ src[last.self] = src[last.other])
    => result = EmptyBag

C1_Witness ==
  /\ Compared /\ BothBuiltOnce /\ last.self # last.other
  /\ src[1] = src[2] /\ Len(src[1]) = 2
  /\ src[1][1].path # src[1][2].path
  /\ result = EmptyBag

\* C2: when both trees hold a path p and the ordered identifier sequences
\* under p differ, every leaf identifier of p of either tree is returned,
\* the identifiers of p's unchanged chunks included.
C2_WholeFileInclusion ==
  (Compared /\ BothBuiltOnce) =>
    \A p \in Paths :
      ( /\ HasPath(src[last.self], p) /\ HasPath(src[last.other], p)
        /\ IdSeqUnder(src[last.self], p) # IdSeqUnder(src[last.other], p) )
      => (IdsUnder(src[last.self], p) \cup IdsUnder(src[last.other], p))
           \subseteq ResultSet

C2_Witness ==
  /\ Compared /\ BothBuiltOnce
  /\ \E p \in Paths :
       /\ IdSeqUnder(src[last.self], p) # IdSeqUnder(src[last.other], p)
       /\ \E id \in IdsUnder(src[last.self], p) \cap IdsUnder(src[last.other], p) :
            id \in ResultSet
       /\ \E id \in IdsUnder(src[last.other], p) \ IdsUnder(src[last.self], p) :
            id \in ResultSet

\* C3: when the root digests differ, no leaf of a file node whose digest
\* occurs in both trees is returned; every returned identifier is a leaf of
\* a file node whose digest occurs in exactly one tree.
C3_UnchangedFilesExcluded ==
  (Compared /\ BothBuiltOnce /\ A.root[1].hash_value # B.root[1].hash_value) =>
    /\ \A f \in FilesOf(A) \cup FilesOf(B) :
         f.hash_value \in FileDigests(A) \cap FileDigests(B)
           => ChunkKeys(f) \cap ResultSet = {}
    /\ \A id \in ResultSet :
         \E f \in FilesOf(A) \cup FilesOf(B) :
           /\ id \in ChunkKeys(f)
           /\ f.hash_value \notin FileDigests(A) \cap FileDigests(B)

C3_Witness ==
  /\ Compared /\ BothBuiltOnce /\ A.root[1].hash_value # B.root[1].hash_value
  /\ FileDigests(A) \cap FileDigests(B) # {}
  /\ ResultSet # {}

\* C4: no identifier occurs more than once in what compare returns.
C4_NoDuplicates ==
  Compared => \A id \in ResultSet : CopiesIn(id, result) = 1

\* C5: comparing the tree built from the empty list with a tree T built
\* from cs, in either order, returns exactly the keys of T's chunk_nodes,
\* which are the identifiers of the chunks of cs.
C5_DiffAgainstEmpty ==
  (Compared /\ BothBuiltOnce) =>
    /\ src[last.self] = <<>> =>
         /\ ResultSet = DOMAIN B.chunk_nodes
         /\ ResultSet = IdsOf(src[last.other])
    /\ src[last.other] = <<>> =>
         /\ ResultSet = DOMAIN A.chunk_nodes
         /\ ResultSet = IdsOf(src[last.self])

C5_Witness ==
  /\ Compared /\ BothBuiltOnce
  /\ src[last.self] = <<>> /\ Len(src[last.other]) = 2
  /\ Cardinality(ResultSet) = 2
  /\ ResultSet = DOMAIN B.chunk_nodes

\* C6 as stated: after build_from_chunks the root is absent exactly when
\* the chunk list was empty.
C6_RootAbsentIffEmpty ==
  \A t \in TreeIds :
    nbuilt[t] >= 1 => (trees[t].root = <<>> <=> src[t] = <<>>)

\* C6 amended: after build_from_chunks the root is always present; for the
\* empty chunk list it is a node with the empty-string digest and no
\* children, for a non-empty list a node with a digest and one child per
\* path.  The root is absent only before the first build_from_chunks.
C6_RootPresentAfterBuild ==
  \A t \in TreeIds :
    /\ nbuilt[t] = 0 => trees[t].root = <<>>
    /\ nbuilt[t] >= 1 =>
         /\ Len(trees[t].root) = 1
         /\ src[t] = <<>> =>
              /\ trees[t].root[1].hash_value = <<>>
              /\ trees[t].root[1].children = <<>>
         /\ src[t] # <<>> =>
              /\ trees[t].root[1].hash_value # <<>>
              /\ Len(trees[t].root[1].children) = Len(PathOrder(src[t]))

C6_Witness ==
  \E t \in TreeIds :
    /\ nbuilt[t] >= 1 /\ src[t] = <<>>
    /\ trees[t].root = <<MerkleNode(<<>>, <<>>)>>

\* the second list holds the texts of the first, all moved from one path
\* to another
Renamed(before, after) ==
  /\ Len(before) > 0 /\ Len(after) = Len(before)
  /\ \E p \in Paths, q \in Paths :
       /\ p # q
       /\ \A i \in 1..Len(before) :
            /\ before[i].path = p /\ after[i].path = q
            /\ after[i].code_string = before[i].code_string

\* C7: the same non-empty list of texts under two different paths gives
\* disjoint identifier sets, and compare returns the union of both.
C7_Rename ==
  (Compared /\ BothBuiltOnce /\ Renamed(src[last.self], src[last.other])) =>
    /\ IdsOf(src[last.self]) \cap IdsOf(src[last.other]) = {}
    /\ ResultSet = IdsOf(src[last.self]) \cup IdsOf(src[last.other])

C7_Witness ==
  /\ Compared /\ BothBuiltOnce /\ Renamed(src[last.self], src[last.other])
  /\ Len(src[last.self]) = 2
  /\ Cardinality(ResultSet) = 2

\* C10: a compare call leaves both trees as they were (root, digests,
\* children order, chunk_nodes), and the same call made again returns the
\* same set of identifiers.
C10_ComparePure ==
  [][ last'.op = "compare" =>
        /\ trees' = trees
        /\ last'.rep => BagToSet(result') = BagToSet(result) ]_vars

C10_Witness ==
  /\ Compared /\ last.rep /\ last.self # last.other
  /\ ResultSet # {}
  /\ nbuilt[1] = 1 /\ nbuilt[2] = 1

\* C15: two chunk lists that hold the same chunks in the same order within
\* every path, but whose paths first appear in a different order, may give
\* different root digests; compare between the two trees is still empty.
C15_PathOrderIrrelevant ==
  ( /\ Compared /\ BothBuiltOnce
    /\ \A p \in Paths :
         FileChunks(src[last.self], p) = FileChunks(src[last.other], p) )
  => result = EmptyBag

C15_Witness ==
  /\ Compared /\ BothBuiltOnce
  /\ \A p \in Paths :
       FileChunks(src[last.self], p) = FileChunks(src[last.other], p)
  /\ PathOrder(src[last.self]) # PathOrder(src[last.other])
  /\ A.root[1].hash_value # B.root[1].hash_value
  /\ result = EmptyBag

\* the leaf digests reachable under the root of a built tree
LeavesUnderRoot(tree) == UNION {ChunkKeys(f) : f \in FilesOf(tree)}

\* C16: after one or more build_from_chunks calls on one instance the keys
\* of chunk_nodes are exactly the leaf digests under the current root, and
\* every key maps to the node with that digest.
C16_IndexIsMembership ==
  \A t \in TreeIds :
    nbuilt[t] >= 1 =>
      /\ DOMAIN trees[t].chunk_nodes = LeavesUnderRoot(trees[t])
      /\ \A id \in DOMAIN trees[t].chunk_nodes :
           trees[t].chunk_nodes[id].hash_value = id

\* C17: for two trees each built by one build_from_chunks call, every
\* identifier that is a key of exactly one tree's chunk_nodes is returned
\* by compare, and every returned identifier is a key of one of the two.
C17_NoMissNoForeign ==
  (Compared /\ BothBuiltOnce) =>
    LET ka == DOMAIN A.chunk_nodes
        kb == DOMAIN B.chunk_nodes
    IN /\ ((ka \ kb) \cup (kb \ ka)) \subseteq ResultSet
       /\ ResultSet \subseteq (ka \cup kb)

C17_Witness ==
  /\ Compared /\ BothBuiltOnce
  /\ (DOMAIN A.chunk_nodes) \ (DOMAIN B.chunk_nodes) # {}
  /\ (DOMAIN B.chunk_nodes) \ (DOMAIN A.chunk_nodes) # {}
  /\ (DOMAIN A.chunk_nodes) \cap (DOMAIN B.chunk_nodes) # {}
  /\ ((DOMAIN A.chunk_nodes) \ (DOMAIN B.chunk_nodes)) \subseteq ResultSet
  /\ ((DOMAIN B.chunk_nodes) \ (DOMAIN A.chunk_nodes)) \subseteq ResultSet

\* C18: for any two trees (never built, built from the empty list, built,
\* rebuilt) a.compare(b) and b.compare(a) return the same set.
C18_CompareSymmetric ==
  Compared => ResultSet = BagToSet(compare(B, A))

C18_Witness ==
  /\ Compared /\ last.self # last.other
  /\ A.root = <<>> /\ nbuilt[last.other] = 2
  /\ ResultSet # {}
  /\ ResultSet = BagToSet(compare(B, A))

\* ---------------------------------------------------- the identifier machine
\* One CodeChunk is edited step by step; after every edit doc_id is read on
\* the chunk as it was and as it is.
Meta == {m \in Types \X (1..MaxLine) \X (1..MaxLine) : m[2] <= m[3]}

AllTexts == UNION {[1..n -> Alphabet] : n \in 0..MaxText}

InsertAt(seq, i, x) == SubSeq(seq, 1, i-1) \o <<x>> \o SubSeq(seq, i, Len(seq))

RemoveAt(seq, i) == SubSeq(seq, 1, i-1) \o SubSeq(seq, i+1, Len(seq))

\* a line that is empty or holds only blanks
IsBlankLine(line) == \A j \in 1..Len(line) : line[j] \in Blank

BlankLines == {<<>>} \cup {<<w>> : w \in Blank}

\* position j of a line has content on both sides within the line
HasContentUpTo(line, j) == \E a \in 1..j : line[a] \notin Whitespace

HasContentFrom(line, j) == \E b \in j..Len(line) : line[b] \notin Whitespace

InitId ==
  /\ InitTrees
  /\ chunk \in {CodeChunk(t, "function", 1, 1, Str1("p")) : t \in AllTexts}
  /\ prev = chunk
  /\ edit = "none"
  /\ ids = <<doc_id(chunk), doc_id(chunk)>>
  /\ InitScan

\* the chunk becomes c by an edit of the given kind; both doc_ids are read
Edited(kind, c) ==
  /\ Len(c.code_string) <= MaxText
  /\ chunk' = c
  /\ prev' = chunk
  /\ edit' = kind
  /\ ids' = <<doc_id(chunk), doc_id(c)>>
  /\ UNCHANGED treeVars
  /\ UNCHANGED scanVars

WithLines(lines) == [chunk EXCEPT !.code_string = join(lines)]

InsertBlankLine ==
  \E i \in 1..(Len(split(chunk.code_string)) + 1), w \in BlankLines :
    Edited("blank+", WithLines(InsertAt(split(chunk.code_string), i, w)))

RemoveBlankLine ==
  LET lines == split(chunk.code_string)
  IN \E i \in 1..Len(lines) :
       /\ Len(lines) >= 2 /\ IsBlankLine(lines[i])
       /\ Edited("blank-", WithLines(RemoveAt(lines, i)))

AddTrailing ==
  LET lines == split(chunk.code_string)
  IN \E i \in 1..Len(lines), w \in Blank :
       Edited("trail+", WithLines([lines EXCEPT ![i] = Append(@, w)]))

RemoveTrailing ==
  LET lines == split(chunk.code_string)
  IN \E i \in 1..Len(lines) :
       /\ lines[i] # <<>> /\ lines[i][Len(lines[i])] \in Blank
       /\ Edited("trail-", WithLines([lines EXCEPT ![i] = RemoveAt(@, Len(@))]))

AddIndent ==
  LET lines == split(chunk.code_string)
  IN \E i \in 1..Len(lines), w \in Blank :
       Edited("indent+", WithLines([lines EXCEPT ![i] = <<w>> \o @]))

RemoveIndent ==
  LET lines == split(chunk.code_string)
  IN \E i \in 1..Len(lines) :
       /\ lines[i] # <<>> /\ lines[i][1] \in Blank
       /\ Edited("indent-", WithLines([lines EXCEPT ![i] = Tail(@)]))

InsertInner ==
  LET lines == split(chunk.code_string)
  IN \E i \in 1..Len(lines), w \in Blank :
       \E j \in 1..(Len(lines[i]) - 1) :
         /\ HasContentUpTo(lines[i], j) /\ HasContentFrom(lines[i], j+1)
         /\ Edited("inner+", WithLines([lines EXCEPT ![i] = InsertAt(@, j+1, w)]))

RemoveInner ==
  LET lines == split(chunk.code_string)
  IN \E i \in 1..Len(lines) :
       \E j \in 2..(Len(lines[i]) - 1) :
         /\ lines[i][j] \in Blank
         /\ HasContentUpTo(lines[i], j-1) /\ HasContentFrom(lines[i], j+1)
         /\ Edited("inner-", WithLines([lines EXCEPT ![i] = RemoveAt(@, j)]))

SetMeta ==
  \E m \in Meta :
    /\ <<chunk.type, chunk.start_line, chunk.end_line>> # m
    /\ Edited("meta", [chunk EXCEPT !.type = m[1], !.start_line = m[2],
                                    !.end_line = m[3]])

SetPath ==
  \E p \in Paths :
    /\ p # chunk.path
    /\ Edited("path", [chunk EXCEPT !.path = p])

NextId ==
  \/ InsertBlankLine
  \/ RemoveBlankLine
  \/ AddTrailing
  \/ RemoveTrailing
  \/ AddIndent
  \/ RemoveIndent
  \/ InsertInner
  \/ RemoveInner
  \/ SetMeta
  \/ SetPath

SpecId == InitId /\ [][NextId]_vars

\* C8: doc_id is path + "__" + digest(normalize_code(code_string)); two
\* chunks have the same doc_id exactly when they have the same path and the
\* same normalized text, so the same text under another path has another
\* identifier, and type, start_line and end_line never change it.
C8_IdentifierIdentity ==
  /\ ids[2] = chunk.path \o Str2("_", "_")
                \o <<[k |-> "#", v |-> normalize_code(chunk.code_string)]>>
  /\ (ids[1] = ids[2]) <=>
       ( /\ prev.path = chunk.path
         /\ normalize_code(prev.code_string) = normalize_code(chunk.code_string) )
  /\ edit = "meta" => ids[1] = ids[2]
  /\ edit = "path" => ids[1] # ids[2]

C8_Witness ==
  /\ edit = "path"
  /\ prev.code_string = chunk.code_string /\ prev.path # chunk.path
  /\ normalize_code(chunk.code_string) # <<>>
  /\ ids[1] # ids[2]

\* C9: adding or removing blank lines, trailing whitespace or leading
\* indentation never changes doc_id; adding or removing whitespace strictly
\* inside a line's content always does.
C9_NormalizationInsensitivity ==
  /\ edit \in {"blank+", "blank-", "trail+", "trail-", "indent+", "indent-"}
       => (prev.code_string # chunk.code_string /\ ids[1] = ids[2])
  /\ edit \in {"inner+", "inner-"} => ids[1] # ids[2]

C9_Witness ==
  /\ edit = "indent+"
  /\ Len(split(chunk.code_string)) = 2
  /\ normalize_code(chunk.code_string) # <<>>
  /\ prev.code_string # chunk.code_string
  /\ ids[1] = ids[2]

\* ----------------------------------------------------- the chunker machine
\* chunk_code is a function of the parse tree, the text and the path: the
\* machine starts with any parsed text and applies chunk_code to it.
InitChunker ==
  /\ InitTrees /\ InitChunk0
  /\ \E m \in ModuleShapes :
       parsed = [root_node |-> RootNode(m), code |-> ModuleSource(m),
                 file_path |-> Str1("p"), chunks |-> <<>>, done |-> FALSE]
  /\ env = [so_exists |-> TRUE, repo_ok |-> TRUE]
  /\ nprov = 0
  /\ ncalls = 0
  /\ ret = [op |-> "none", arg |-> <<>>, outcome |-> "returned", chunks |-> <<>>]
  /\ dtree = NewTree

\* chunker.chunk_code(code, file_path) on the parsed text
ChunkCode ==
  /\ ~parsed.done
  /\ parsed' = [parsed EXCEPT
                  !.chunks = chunk_code(parsed.root_node, parsed.code,
                                        parsed.file_path),
                  !.done = TRUE]
  /\ UNCHANGED <<env, nprov, ncalls, ret, dtree>>
  /\ UNCHANGED treeVars
  /\ UNCHANGED idVars

NextChunker == ChunkCode

SpecChunker == InitChunker /\ [][NextChunker]_vars

\* the children of a node as a set, and those of a given type
KidsOf(node) == {node.children[i] : i \in 1..Len(node.children)}

KidsOfType(node, type) == {c \in KidsOf(node) : c.type = type}

\* the direct function_definition children of the body blocks of a class
MethodNodes(class) ==
  UNION {KidsOfType(b, "function_definition") : b \in KidsOfType(class, "block")}

\* what a chunk says of the node it was cut from: kind and extent
ChunkOf(kind, node) ==
  CodeChunk(SubSeq(parsed.code, node.start_byte + 1, node.end_byte), kind,
            node.start_point[1] + 1, node.end_point[1] + 1, parsed.file_path)

KindsOf(chunks) == [i \in 1..Len(chunks) |-> chunks[i].type]

\* the chunks returned whose lines lie within a node
ChunksWithin(node) ==
  SelectSeq(parsed.chunks, LAMBDA c : /\ c.start_line >= node.start_point[1] + 1
                                      /\ c.end_line <= node.end_point[1] + 1)

\* C11: chunk_code returns, in document order, one 'class' chunk per
\* top-level class_definition followed by one 'method' chunk per
\* function_definition directly in its body block, one 'function' chunk per
\* top-level function_definition, and nothing for any other node.
C11_ChunkExtraction ==
  LET root == parsed.root_node
      classes == KidsOfType(root, "class_definition")
      expected ==
        {ChunkOf("class", c) : c \in classes}
          \cup {ChunkOf("function", f) : f \in KidsOfType(root, "function_definition")}
          \cup UNION {{ChunkOf("method", m) : m \in MethodNodes(c)} : c \in classes}
      out == parsed.chunks
  IN parsed.done =>
     /\ {out[i] : i \in 1..Len(out)} = expected
     /\ Len(out) = Cardinality(expected)
     /\ \A i \in 1..Len(out), j \in 1..Len(out) :
          i < j => out[i].start_line < out[j].start_line
     /\ \A c \in classes :
          /\ ChunksWithin(c) # <<>>
          /\ Head(ChunksWithin(c)).type = "class"
          /\ \A i \in 2..Len(ChunksWithin(c)) : ChunksWithin(c)[i].type = "method"
          /\ Len(ChunksWithin(c)) = 1 + Cardinality(MethodNodes(c))
     /\ root.children = <<>> => out = <<>>

C11_Witness ==
  /\ parsed.done
  /\ Len(parsed.root_node.children) = 2
  /\ parsed.root_node.children[1].type = "class_definition"
  /\ Cardinality(MethodNodes(parsed.root_node.children[1])) = 2
  /\ parsed.root_node.children[2].type = "decorated_definition"
  /\ KindsOf(parsed.chunks) = <<"class", "method", "method">>
  /\ parsed.chunks[1].start_line = 1 /\ parsed.chunks[1].end_line = 5
  /\ parsed.chunks[3].start_line = 4 /\ parsed.chunks[3].end_line = 5

\* ------------------------------------------------ the provisioning machine
\* The caller-facing operations chunk_code_string, chunk_file and
\* build_from_directory, each of which constructs its own ASTChunker and with
\* it its own TreeSitterSetup.  The environment says whether python.so is in
\* the languages directory and whether Language.build_library can build it
\* from the tree-sitter-python checkout.

\* TreeSitterSetup.build_language on a setup whose language is None
build_language(e) ==
  IF ~e.so_exists
  THEN IF e.repo_ok
       THEN [outcome |-> "returned", env |-> [e EXCEPT !.so_exists = TRUE]]
       ELSE [outcome |-> "raised", env |-> e]
  ELSE [outcome |-> "returned", env |-> e]

\* TreeSitterSetup.get_parser on a new setup: language is None, so
\* build_language runs; the parser is created when it returned
get_parser(e) == build_language(e)

\* ASTChunker() without a parser: a new TreeSitterSetup and its get_parser
ASTChunker(e) == get_parser(e)

\* chunk_code_string(code, file_path), where parsing code gives module
chunk_code_string(module, file_path, e) ==
  LET chunker == ASTChunker(e)
  IN [outcome |-> chunker.outcome,
      chunks |-> IF chunker.outcome = "raised" THEN <<>>
                 ELSE chunk_code(RootNode(module), ModuleSource(module), file_path),
      env |-> chunker.env]

\* chunk_file(file_path): the chunker is constructed first, then the file is
\* opened, read and decoded (file.fails: one of these raises), then chunked
chunk_file(file, e) ==
  LET chunker == ASTChunker(e)
  IN IF chunker.outcome = "raised" \/ file.fails
     THEN [outcome |-> "raised", chunks |-> <<>>, env |-> chunker.env]
     ELSE [outcome |-> "returned",
           chunks |-> chunk_code(RootNode(file.module),
                                 ModuleSource(file.module), file.path),
           env |-> chunker.env]

\* directory_path.glob(file_pattern): the entries whose name matches
glob(directory) == SelectSeq(directory, LAMBDA f : f.matches)

RECURSIVE scan_files_abort(_, _)
\* variant of the loop without the try: the first failing file ends the scan
scan_files_abort(files, e) ==
  IF files = <<>> THEN [chunks |-> <<>>, env |-> e]
  ELSE LET r == chunk_file(Head(files), e)
       IN IF r.outcome = "raised" THEN [chunks |-> <<>>, env |-> r.env]
          ELSE LET rest == scan_files_abort(Tail(files), r.env)
               IN [chunks |-> r.chunks \o rest.chunks, env |-> rest.env]

RECURSIVE scan_files(_, _)
\* the loop of build_from_directory: chunk_file per file, extending chunks
\* when it returned and printing the error when it raised
scan_files(files, e) ==
  IF files = <<>> THEN [chunks |-> <<>>, env |-> e]
  ELSE LET r == chunk_file(Head(files), e)
           rest == scan_files(Tail(files), r.env)
       IN [chunks |-> (IF r.outcome = "returned" THEN r.chunks ELSE <<>>)
                        \o rest.chunks,
           env |-> rest.env]

\* self.build_from_directory(directory): the scan, then build_from_chunks
build_from_directory(self, directory, e) ==
  LET scan == scan_files(glob(directory), e)
  IN [outcome |-> "returned", tree |-> build_from_chunks(self, scan.chunks),
      env |-> scan.env]

\* ---- inputs of the provisioning machine
FileNames == <<"f", "g", "h", "i">>

FuncModule == Shape("module", <<SimpleFunc>>)

ClassModule == Shape("module", <<ClassShape(<<SimpleFunc>>)>>)

\* what a directory entry can be: not matching the pattern, matching and
\* failing, matching and holding one of two texts
FileKinds ==
  {[matches |-> FALSE, fails |-> FALSE, module |-> FuncModule],
   [matches |-> TRUE, fails |-> TRUE, module |-> FuncModule],
   [matches |-> TRUE, fails |-> FALSE, module |-> FuncModule],
   [matches |-> TRUE, fails |-> FALSE, module |-> ClassModule]}

File(name, kind) ==
  [path |-> Str1(name), matches |-> kind.matches, fails |-> kind.fails,
   module |-> kind.module]

\* directories of up to MaxFiles entries, in the order glob yields them
Directories ==
  UNION {{[i \in 1..n |-> File(FileNames[i], k[i])] : k \in [1..n -> FileKinds]}
           : n \in 0..MaxFiles}

Envs == [so_exists : BOOLEAN, repo_ok : BOOLEAN]

InitProv ==
  /\ InitTrees /\ InitChunk0
  /\ parsed = [root_node |-> RootNode(Shape("module", <<>>)), code |-> <<>>,
               file_path |-> Str1("p"), chunks |-> <<>>, done |-> FALSE]
  /\ env \in Envs
  /\ nprov = 0
  /\ ncalls = 0
  /\ ret = [op |-> "none", arg |-> <<>>, outcome |-> "returned", chunks |-> <<>>]
  /\ dtree = NewTree

\* a caller calls chunk_code_string(code, file_path)
CallChunkCodeString(file) ==
  LET r == chunk_code_string(file.module, file.path, env)
  IN /\ ncalls < MaxCalls
     /\ ncalls' = ncalls + 1
     /\ nprov' = nprov + 1
     /\ env' = r.env
     /\ ret' = [op |-> "chunk_code_string", arg |-> <<file>>,
                outcome |-> r.outcome, chunks |-> r.chunks]
     /\ UNCHANGED <<parsed, dtree>>
     /\ UNCHANGED treeVars
     /\ UNCHANGED idVars

\* a caller calls chunk_file(file_path)
CallChunkFile(file) ==
  LET r == chunk_file(file, env)
  IN /\ ncalls < MaxCalls
     /\ ncalls' = ncalls + 1
     /\ nprov' = nprov + 1
     /\ env' = r.env
     /\ ret' = [op |-> "chunk_file", arg |-> <<file>>,
                outcome |-> r.outcome, chunks |-> r.chunks]
     /\ UNCHANGED <<parsed, dtree>>
     /\ UNCHANGED treeVars
     /\ UNCHANGED idVars

\* a caller calls MerkleTree().build_from_directory(directory)
CallBuildFromDirectory(directory) ==
  LET r == build_from_directory(NewTree, directory, env)
  IN /\ ncalls < MaxCalls
     /\ ncalls' = ncalls + 1
     /\ nprov' = nprov + Len(glob(directory))
     /\ env' = r.env
     /\ ret' = [op |-> "build_from_directory", arg |-> directory,
                outcome |-> r.outcome, chunks |-> <<>>]
     /\ dtree' = r.tree
     /\ UNCHANGED parsed
     /\ UNCHANGED treeVars
     /\ UNCHANGED idVars

NextProv ==
  \/ \E k \in {k \in FileKinds : k.matches /\ ~k.fails} :
       CallChunkCodeString(File(FileNames[1], k))
  \/ \E k \in {k \in FileKinds : k.matches} : CallChunkFile(File(FileNames[1], k))
  \/ \E d \in Directories : CallBuildFromDirectory(d)

SpecProv == InitProv /\ [][NextProv]_vars

\* the parser backend can be located or built
Available == env.so_exists \/ env.repo_ok

\* the chunks of the text of a file
ChunksOfFile(file) ==
  chunk_code(RootNode(file.module), ModuleSource(file.module), file.path)

\* the file matches the pattern and its processing in chunk_file succeeds
Succeeds(file) == file.matches /\ ~file.fails /\ Available

\* the leaf identifiers under a file node, in order
LeafIds(file_node) ==
  [j \in 1..Len(file_node.children) |-> file_node.children[j].hash_value]

\* C12: build_from_directory never raises, and the tree it returns is the one
\* built from the chunks of the matching files whose processing succeeded, in
\* scan order; failing and non-matching files contribute nothing.
C12_FailureIsolation ==
  ret.op = "build_from_directory" =>
    LET good == SelectSeq(ret.arg, Succeeds)
        files == dtree.root[1].children
    IN /\ ret.outcome = "returned"
       /\ dtree = build_from_chunks(NewTree,
                    Concat([i \in 1..Len(good) |-> ChunksOfFile(good[i])]))
       /\ Len(files) = Len(good)
       /\ \A i \in 1..Len(files) :
            LeafIds(files[i]) =
              [j \in 1..Len(ChunksOfFile(good[i])) |-> doc_id(ChunksOfFile(good[i])[j])]

C12_Witness ==
  /\ ret.op = "build_from_directory"
  /\ Len(ret.arg) = 2
  /\ ret.arg[1].matches /\ ret.arg[1].fails
  /\ Succeeds(ret.arg[2])
  /\ ret.outcome = "returned"
  /\ Len(dtree.root[1].children) = 1
  /\ Len(dtree.root[1].children[1].children) = 2

\* C13: when the parser backend can be neither located nor built, every
\* caller-facing operation that reaches the provisioning step ends in an
\* error; none returns normally.
C13_GrammarUnavailableFatal ==
  (/\ ret.op \in {"chunk_code_string", "chunk_file", "build_from_directory"}
   /\ glob(ret.arg) # <<>>
   /\ ~Available)
    => ret.outcome = "raised"

\* C14: build_language is executed at most once in a process.
C14_ProvisionedAtMostOnce == nprov <= 1

====
